---- MODULE Spec2Model ----
(***************************************************************************)
(* Model of napari-imaris-loader: the reader adapter ims_reader            *)
(* (reader.py) and the resolution-switch panel resolution_change           *)
(* (resolution_change_widget.py), together with the part of the host       *)
(* viewer (layer list, per-layer display properties, ndisplay) the panel   *)
(* reads and writes.                                                       *)
(***************************************************************************)
EXTENDS Integers, Sequences, FiniteSets, TLC

VARIABLES file, layers, ndisplay, edits, last, ret

vars == <<file, layers, ndisplay, edits, last, ret>>

(***************************************************************************)
(* Bounds of the model.                                                    *)
(***************************************************************************)
MaxTimePoints == 2
MaxChannels == 2
MaxLevels == 3
MaxEdits == 1
BaseExtent == 16

(***************************************************************************)
(* Small helpers.                                                          *)
(***************************************************************************)
SetMin(S) == CHOOSE x \in S : \A y \in S : x <= y
SetMax(S) == CHOOSE x \in S : \A y \in S : x >= y
Pow2(n) == IF n <= 0 THEN 1 ELSE IF n = 1 THEN 2 ELSE IF n = 2 THEN 4 ELSE IF n = 3 THEN 8 ELSE 16
RemoveAt(s, i) == [k \in 1..(Len(s) - 1) |-> IF k < i THEN s[k] ELSE s[k + 1]]

(***************************************************************************)
(* The file as the external reader library presents it: pyramid level      *)
(* count, channel count, timepoint count, dtype and the values stored in   *)
(* the lowest-resolution level (readable = FALSE: reading them raises).    *)
(***************************************************************************)
filePathComplete == "a.ims"
Dtypes == {"uint16", "uint8", "float32"}
PixelValues == {-1, 0, 2, 7}
resolution == <<1, 1, 1>>

PixelSets(dt) ==
    {S \in SUBSET PixelValues : S # {} /\ (dt # "float32" => \A v \in S : v >= 0)}

Files ==
    {f \in [TimePoints : 1..MaxTimePoints, Channels : 1..MaxChannels,
            ResolutionLevels : 1..MaxLevels, dtype : Dtypes,
            pixels : SUBSET PixelValues, readable : BOOLEAN] :
        f.pixels \in PixelSets(f.dtype)}

(* ims(path, ResolutionLevelLock=rr, squeeze_output=False) wrapped by      *)
(* da.from_array: a 5-D (t, c, z, y, x) array of resolution level rr.      *)
(* fixed holds the (axis, index) selections applied to it by take().       *)
LevelArray(f, rr) ==
    [level |-> rr,
     axes |-> <<"t", "c", "z", "y", "x">>,
     shape |-> <<f.TimePoints, f.Channels, BaseExtent \div Pow2(rr),
                 BaseExtent \div Pow2(rr), BaseExtent \div Pow2(rr)>>,
     fixed |-> {}]

ndim(a) == Len(a.shape)

(* dd.take(cc, axis=k): axis k (0-based) is dropped, index cc of it kept.  *)
take(a, cc, k) ==
    [a EXCEPT !.axes = RemoveAt(a.axes, k + 1),
              !.shape = RemoveAt(a.shape, k + 1),
              !.fixed = a.fixed \cup {<<a.axes[k + 1], cc>>}]

(* data[idx][np.newaxis, ...] *)
newaxis(a) ==
    [a EXCEPT !.axes = <<"new">> \o a.axes, !.shape = <<1>> \o a.shape]

(***************************************************************************)
(* ims_reader, step by step.                                               *)
(***************************************************************************)
(* Mutation of FallbackContrast: the 8-bit case is forgotten. *)
FallbackContrast_NoUint8(f) ==
    IF f.dtype = "uint16" THEN <<0, 65535>> ELSE <<0, 1>>

(* reader.py 47-53: the except branch. *)
FallbackContrast(f) ==
    IF f.dtype = "uint16" THEN <<0, 65535>>
    ELSE IF f.dtype = "uint8" THEN <<0, 255>>
    ELSE <<0, 1>>

(* reader.py 42-45: raises (ValueError of min() on an empty selection, or  *)
(* any error of the read itself) exactly when ExtractionFails.             *)
ExtractionFails(f) == ~f.readable \/ {v \in f.pixels : v > 0} = {}

ExtractedContrast(f) ==
    <<SetMin({v \in f.pixels : v > 0}), SetMax(f.pixels)>>

contrastLimits(f) ==
    IF ExtractionFails(f) THEN FallbackContrast(f) ELSE ExtractedContrast(f)

(* reader.py 55-60: a python str for one channel, a list otherwise. *)
ChannelName(cc) == "Channel " \o ToString(cc)

channelNames(f) ==
    IF f.Channels = 1
    THEN [list |-> FALSE, str |-> ChannelName(0), items |-> <<>>]
    ELSE [list |-> TRUE, str |-> "", items |-> [k \in 1..f.Channels |-> ChannelName(k - 1)]]

(* reader.py 86-92: <<>> is None, <<k>> the integer k. *)
ChannelAxis(f) ==
    IF f.TimePoints > 1 THEN <<1>>
    ELSE IF f.Channels > 1 THEN <<0>>
    ELSE <<>>

(* reader.py 62-74 and 96-100: all levels, channel axis added if ndim < 4. *)
AllLevels(f) ==
    [k \in 1..f.ResolutionLevels |->
        LET a == LevelArray(f, k - 1)
        IN IF ChannelAxis(f) # <<>> /\ ndim(a) < 4 THEN newaxis(a) ELSE a]

(* reader.py 106 *)
Multiscale(data) == Len(data) > 1

(* reader.py 108-115 *)
Scale(data) ==
    IF ndim(data[1]) = Len(resolution) + 1 THEN <<1>> \o resolution ELSE resolution

(* Mutation of LayerMetadata: the highest level index is stored instead   *)
(* of the level count.                                                     *)
LayerMetadata_HighestIndex(f) ==
    [keys |-> {"fileName", "resolutionLevels"},
     fileName |-> filePathComplete,
     resolutionLevels |-> f.ResolutionLevels - 1]

(* reader.py 80-83 *)
LayerMetadata(f) ==
    [keys |-> {"fileName", "resolutionLevels"},
     fileName |-> filePathComplete,
     resolutionLevels |-> f.ResolutionLevels]

(* reader.py 77-115: the base metadata dictionary. *)
BaseMeta(f, data) ==
    [keys |-> {"contrast_limits", "name", "metadata", "channel_axis", "multiscale", "scale"},
     contrast_limits |-> contrastLimits(f),
     name |-> channelNames(f),
     metadata |-> LayerMetadata(f),
     channel_axis |-> ChannelAxis(f),
     multiscale |-> Multiscale(data),
     scale |-> Scale(data)]

(* reader.py 118-121: resLevel is [isInt, r]; 'max' is not an int. *)
TooHigh(resLevel, data) == resLevel.isInt /\ resLevel.r + 1 > Len(data)

(* python data[:n] for any integer n *)
PrefixSlice(data, n) ==
    LET stop == IF n < 0 THEN (IF Len(data) + n < 0 THEN 0 ELSE Len(data) + n)
                ELSE IF n > Len(data) THEN Len(data) ELSE n
    IN SubSeq(data, 1, stop)

(* Mutation of CapLevels: the slice stops one level early. *)
CapLevels_OffByOne(resLevel, data) ==
    IF resLevel.isInt THEN PrefixSlice(data, resLevel.r) ELSE data

CapLevels(resLevel, data) ==
    IF resLevel.isInt THEN PrefixSlice(data, resLevel.r + 1) ELSE data

(* reader.py 125-151 *)
SplitOutput(data, meta) ==
    LET channel_axis == meta.channel_axis[1]
        num_channels == data[1].shape[channel_axis + 1]
    IN [cc \in 1..num_channels |->
          [data |-> [isList |-> TRUE,
                     levels |-> [d \in 1..Len(data) |-> take(data[d], cc - 1, channel_axis)]],
           meta |-> [keys |-> {"contrast_limits", "multiscale", "metadata", "scale", "name"},
                     contrast_limits |-> meta.contrast_limits,
                     name |-> [list |-> FALSE,
                               str |-> IF meta.name.list THEN meta.name.items[cc]
                                       ELSE meta.name.str,
                               items |-> <<>>],
                     metadata |-> meta.metadata,
                     channel_axis |-> <<>>,
                     multiscale |-> meta.multiscale,
                     scale |-> meta.scale]]]

(* reader.py 153 *)
JoinedOutput(data, meta) ==
    IF meta.multiscale
    THEN <<[data |-> [isList |-> TRUE, levels |-> data], meta |-> meta]>>
    ELSE <<[data |-> [isList |-> FALSE, levels |-> <<data[1]>>], meta |-> meta]>>

(* reader.py 31-153: raised names the exception that leaves the call. *)
ims_reader(f, resLevel, colorsIndependant) ==
    LET all == AllLevels(f)
        meta == BaseMeta(f, all)
        data == CapLevels(resLevel, all)
    IN IF TooHigh(resLevel, all)
       THEN [raised |-> "ValueError", out |-> <<>>]
       ELSE IF colorsIndependant /\ meta.channel_axis # <<>>
       THEN IF data = <<>>
            THEN [raised |-> "IndexError", out |-> <<>>]
            ELSE [raised |-> "none", out |-> SplitOutput(data, meta)]
       ELSE IF ~meta.multiscale /\ data = <<>>
            THEN [raised |-> "IndexError", out |-> <<>>]
            ELSE [raised |-> "none", out |-> JoinedOutput(data, meta)]

(***************************************************************************)
(* The host viewer: a list of layers, each with a name, a kind, a metadata *)
(* dictionary, its data and the display properties the panel copies.       *)
(***************************************************************************)
DisplayKeys ==
    {"opacity", "gamma", "colormap", "blending", "interpolation2d",
     "interpolation3d", "visible", "rendering", "contrast_limits"}

NoMetadata == [keys |-> {}, fileName |-> "", resolutionLevels |-> 0]

HasLayer(ls, name) == \E i \in 1..Len(ls) : ls[i].name = name
IndexOf(ls, name) == SetMin({i \in 1..Len(ls) : ls[i].name = name})

(* napari keeps layer names unique by appending a numbered suffix. *)
UniqueName(ls, name) ==
    IF ~HasLayer(ls, name) THEN name
    ELSE IF ~HasLayer(ls, name \o " [1]") THEN name \o " [1]"
    ELSE name \o " [2]"

(* Mutation of DisplayOf: gamma is not carried over. *)
DisplayOf_NoGamma(layer) ==
    [opacity |-> layer.opacity,
     gamma |-> "1.0",
     colormap |-> layer.colormap,
     blending |-> layer.blending,
     interpolation2d |-> layer.interpolation2d,
     interpolation3d |-> layer.interpolation3d,
     visible |-> layer.visible,
     rendering |-> layer.rendering,
     contrast_limits |-> layer.contrast_limits]

(* widget 68-78: the display settings read from the old layer. *)
DisplayOf(layer) ==
    [opacity |-> layer.opacity,
     gamma |-> layer.gamma,
     colormap |-> layer.colormap,
     blending |-> layer.blending,
     interpolation2d |-> layer.interpolation2d,
     interpolation3d |-> layer.interpolation3d,
     visible |-> layer.visible,
     rendering |-> layer.rendering,
     contrast_limits |-> layer.contrast_limits]

(* widget 83-93: the defaults used when no layer of that name exists. *)
DefaultDisplay ==
    [opacity |-> "1.0",
     gamma |-> "1.0",
     colormap |-> "gray",
     blending |-> "translucent",
     interpolation2d |-> "nearest",
     interpolation3d |-> "linear",
     visible |-> TRUE,
     rendering |-> "mip",
     contrast_limits |-> <<0, 255>>]

(* widget 79, 94: tupleOut[num][1].update(tmp) *)
MetaUpdate(meta, tmp) ==
    [(tmp @@ meta) EXCEPT !.keys = meta.keys \cup DisplayKeys]

(* widget 99: viewer.add_image(data, **meta) with channel_axis None or absent. *)
add_image(ls, data, meta) ==
    Append(ls,
        [name |-> UniqueName(ls, meta.name.str),
         kind |-> "Image",
         metadata |-> IF "metadata" \in meta.keys THEN meta.metadata ELSE NoMetadata,
         data |-> data,
         opacity |-> IF "opacity" \in meta.keys THEN meta.opacity ELSE "1.0",
         gamma |-> IF "gamma" \in meta.keys THEN meta.gamma ELSE "1.0",
         colormap |-> IF "colormap" \in meta.keys THEN meta.colormap ELSE "gray",
         blending |-> IF "blending" \in meta.keys THEN meta.blending ELSE "translucent",
         interpolation2d |-> IF "interpolation2d" \in meta.keys THEN meta.interpolation2d
                             ELSE "nearest",
         interpolation3d |-> IF "interpolation3d" \in meta.keys THEN meta.interpolation3d
                             ELSE "linear",
         visible |-> IF "visible" \in meta.keys THEN meta.visible ELSE TRUE,
         rendering |-> IF "rendering" \in meta.keys THEN meta.rendering ELSE "mip",
         contrast_limits |-> meta.contrast_limits])

(* widget 65-94: for each returned channel name, copy the old layer's      *)
(* settings into the new metadata and delete the old layer, or use the     *)
(* defaults.                                                               *)
RECURSIVE ReplaceLoop(_, _, _)
ReplaceLoop(ls, tupleOut, num) ==
    IF num > Len(tupleOut) THEN [layers |-> ls, tupleOut |-> tupleOut]
    ELSE LET channel_name == tupleOut[num].meta.name.str
         IN IF HasLayer(ls, channel_name)
            THEN LET i == IndexOf(ls, channel_name)
                 IN ReplaceLoop(RemoveAt(ls, i),
                                [tupleOut EXCEPT ![num] =
                                    [data |-> @.data, meta |-> MetaUpdate(@.meta, DisplayOf(ls[i]))]],
                                num + 1)
            ELSE ReplaceLoop(ls,
                             [tupleOut EXCEPT ![num] =
                                 [data |-> @.data, meta |-> MetaUpdate(@.meta, DefaultDisplay)]],
                             num + 1)

(* widget 97-99 *)
RECURSIVE AddLoop(_, _, _)
AddLoop(ls, tupleOut, num) ==
    IF num > Len(tupleOut) THEN ls
    ELSE AddLoop(add_image(ls, tupleOut[num].data, tupleOut[num].meta), tupleOut, num + 1)

(* widget 25-29: indices of the Image layers carrying 'fileName'. *)
ImsLayers(ls) ==
    {i \in 1..Len(ls) : ls[i].kind = "Image" /\ "fileName" \in ls[i].metadata.keys}

(* Mutation of InvalidLevel: negative levels are not rejected. *)
InvalidLevel_NoNegative(lowest_resolution_level, available_levels) ==
    lowest_resolution_level >= available_levels

(* widget 42 *)
InvalidLevel(lowest_resolution_level, available_levels) ==
    lowest_resolution_level < 0 \/ lowest_resolution_level >= available_levels

(* widget 61-62 *)
ForceNdisplay(nd) == IF nd = 3 THEN 2 ELSE nd

(* widget 57-99: the part of the handler after a successful reader call. *)
ApplyUpdate(ls, nd, tupleOut) ==
    LET r == ReplaceLoop(ls, tupleOut, 1)
    IN [layers |-> AddLoop(r.layers, r.tupleOut, 1), ndisplay |-> ForceNdisplay(nd)]

(* widget 13-99: the whole handler. f is the file behind the fileName      *)
(* the layer carries.                                                      *)
resolution_change(ls, nd, lowest_resolution_level, f) ==
    LET same(outcome, called) ==
            [outcome |-> outcome, layers |-> ls, ndisplay |-> nd,
             readerCalled |-> called, names |-> <<>>]
    IN IF ImsLayers(ls) = {} THEN same("no_ims_layer", FALSE)
       ELSE LET ims_layer == ls[SetMin(ImsLayers(ls))]
            IN IF "resolutionLevels" \notin ims_layer.metadata.keys
               THEN same("no_levels", FALSE)
               ELSE IF InvalidLevel(lowest_resolution_level, ims_layer.metadata.resolutionLevels)
               THEN same("invalid_level", FALSE)
               ELSE LET got == ims_reader(f, [isInt |-> TRUE, r |-> lowest_resolution_level], TRUE)
                    IN IF got.raised = "ValueError" THEN same("reader_error", TRUE)
                       ELSE IF got.raised # "none" THEN same("exception", TRUE)
                       ELSE LET u == ApplyUpdate(ls, nd, got.out)
                            IN [outcome |-> "updated", layers |-> u.layers,
                                ndisplay |-> u.ndisplay, readerCalled |-> TRUE,
                                names |-> [k \in 1..Len(got.out) |-> got.out[k].meta.name.str]]

(***************************************************************************)
(* State machine.                                                          *)
(*   file     the .ims file on disk                                        *)
(*   layers   viewer.layers                                                *)
(*   ndisplay viewer.dims.ndisplay                                         *)
(*   edits    number of layer edits made by the user through the host      *)
(*   last     record of the most recent resolution_change call             *)
(*   ret      record of the most recent direct ims_reader call             *)
(***************************************************************************)
NoCall ==
    [outcome |-> "none", level |-> 0, pre |-> <<>>, preNd |-> 2, names |-> <<>>]

NoRet ==
    [called |-> FALSE, resLevel |-> [isInt |-> FALSE, r |-> 0],
     colorsIndependant |-> FALSE, raised |-> "none", out |-> <<>>]

(* resLevel arguments: the default 'max' and integers around 0..N-1. *)
ResLevels(f) ==
    {[isInt |-> FALSE, r |-> 0]} \cup
    {[isInt |-> TRUE, r |-> r] : r \in (-2)..(f.ResolutionLevels + 1)}

(* The layers of one loaded file: one Image layer per channel, named       *)
(* 'Channel 0' .. 'Channel C-1', each carrying the reader's metadata and   *)
(* holding its channel of every resolution level.                          *)
LoadedLayers(f) ==
    [k \in 1..f.Channels |->
        [name |-> ChannelName(k - 1),
         kind |-> "Image",
         metadata |-> LayerMetadata(f),
         data |-> [isList |-> Multiscale(AllLevels(f)),
                   levels |-> [d \in 1..f.ResolutionLevels |->
                                  take(AllLevels(f)[d], k - 1, 1)]],
         opacity |-> "1.0",
         gamma |-> "1.0",
         colormap |-> "gray",
         blending |-> "translucent",
         interpolation2d |-> "nearest",
         interpolation3d |-> "linear",
         visible |-> TRUE,
         rendering |-> "mip",
         contrast_limits |-> contrastLimits(f)]]

(* Files opened in the viewer: 16-bit data with one or several time       *)
(* points, channels and resolution levels.                                 *)
ViewerFiles ==
    {f \in Files : /\ f.dtype = "uint16" /\ f.pixels = {0, 2, 7} /\ f.readable
                   /\ f.TimePoints <= 2 /\ f.Channels <= 2 /\ f.ResolutionLevels <= 3}

InitReader ==
    /\ file \in Files
    /\ layers = <<>>
    /\ ndisplay = 2
    /\ edits = 0
    /\ last = NoCall
    /\ ret = NoRet

Init ==
    /\ file \in ViewerFiles
    /\ layers = LoadedLayers(file)
    /\ ndisplay = 2
    /\ edits = 0
    /\ last = NoCall
    /\ ret = NoRet

(* A direct call of the reader (napari_get_reader hands ims_reader out). *)
CallReader ==
    \E resLevel \in ResLevels(file), colorsIndependant \in BOOLEAN :
        /\ ret' = [called |-> TRUE, resLevel |-> resLevel,
                   colorsIndependant |-> colorsIndependant,
                   raised |-> ims_reader(file, resLevel, colorsIndependant).raised,
                   out |-> ims_reader(file, resLevel, colorsIndependant).out]
        /\ UNCHANGED <<file, layers, ndisplay, edits, last>>

(* The user presses "Update" with some value in the spin box. *)
ResolutionChange ==
    \E lowest_resolution_level \in (-1)..file.ResolutionLevels :
        LET res == resolution_change(layers, ndisplay, lowest_resolution_level, file)
        IN /\ layers' = res.layers
           /\ ndisplay' = res.ndisplay
           /\ last' = [outcome |-> res.outcome, level |-> lowest_resolution_level,
                       pre |-> layers, preNd |-> ndisplay, names |-> res.names]
           /\ UNCHANGED <<file, edits, ret>>

(* Values the user can give a display property in the host's layer controls. *)
UserValues(key) ==
    CASE key = "opacity" -> {"0.5"}
      [] key = "gamma" -> {"2.0"}
      [] key = "colormap" -> {"green"}
      [] key = "blending" -> {"additive"}
      [] key = "interpolation2d" -> {"linear"}
      [] key = "interpolation3d" -> {"nearest"}
      [] key = "visible" -> {FALSE}
      [] key = "rendering" -> {"translucent"}
      [] key = "contrast_limits" -> {<<1, 5>>}

UserSetDisplay ==
    \E i \in 1..Len(layers), key \in DisplayKeys :
        \E v \in UserValues(key) :
            /\ edits < MaxEdits
            /\ layers[i].kind = "Image"
            /\ layers[i][key] # v
            /\ layers' = [layers EXCEPT ![i] = [@ EXCEPT ![key] = v]]
            /\ edits' = edits + 1
            /\ last' = NoCall
            /\ UNCHANGED <<file, ndisplay, ret>>

UserSetNdisplay ==
    /\ edits < MaxEdits
    /\ ndisplay' = IF ndisplay = 2 THEN 3 ELSE 2
    /\ edits' = edits + 1
    /\ last' = NoCall
    /\ UNCHANGED <<file, layers, ret>>

UserRemoveLayer ==
    \E i \in 1..Len(layers) :
        /\ edits < MaxEdits
        /\ layers' = RemoveAt(layers, i)
        /\ edits' = edits + 1
        /\ last' = NoCall
        /\ UNCHANGED <<file, ndisplay, ret>>

(* Layers the user adds from elsewhere: without metadata, with a fileName  *)
(* only, or with a resolutionLevels entry that is not this file's.         *)
ExtraLayers ==
    {[name |-> "Extra", kind |-> k, metadata |-> m, data |-> [isList |-> FALSE, levels |-> <<>>],
      opacity |-> "1.0", gamma |-> "1.0", colormap |-> "gray", blending |-> "translucent",
      interpolation2d |-> "nearest", interpolation3d |-> "linear", visible |-> TRUE,
      rendering |-> "mip", contrast_limits |-> <<0, 1>>] :
        k \in {"Image", "Labels"},
        m \in {NoMetadata,
               [keys |-> {"fileName"}, fileName |-> filePathComplete, resolutionLevels |-> 0],
               [keys |-> {"fileName", "resolutionLevels"}, fileName |-> filePathComplete,
                resolutionLevels |-> file.ResolutionLevels + 1]}}

UserAddLayer ==
    \E l \in ExtraLayers :
        /\ edits < MaxEdits
        /\ ~HasLayer(layers, l.name)
        /\ layers' = Append(layers, l)
        /\ edits' = edits + 1
        /\ last' = NoCall
        /\ UNCHANGED <<file, ndisplay, ret>>

NextReader == CallReader

Next ==
    \/ ResolutionChange
    \/ UserSetDisplay
    \/ UserSetNdisplay
    \/ UserRemoveLayer
    \/ UserAddLayer

NextLoaded ==
    \/ ResolutionChange
    \/ UserSetDisplay
    \/ UserSetNdisplay

SpecReader == InitReader /\ [][NextReader]_vars

Spec == Init /\ [][Next]_vars

SpecLoaded == Init /\ [][NextLoaded]_vars

(***************************************************************************)
(* Properties of ims_reader, checked under SpecReader.                     *)
(***************************************************************************)
ValidResLevel ==
    ~ret.resLevel.isInt \/ (0 <= ret.resLevel.r /\ ret.resLevel.r < file.ResolutionLevels)

Returned == ret.called /\ ret.raised = "none"

LevelsOf(item) == [d \in 1..Len(item.data.levels) |-> item.data.levels[d].level]

UpTo(n) == [d \in 1..(n + 1) |-> d - 1]

(* C3: with an integer resLevel r in 0..N-1 every returned data item       *)
(* consists of exactly the levels 0..r in increasing order, and with the   *)
(* default 'max' of all N levels 0..N-1.                                   *)
C3_CappedLevels ==
    (ret.called /\ ValidResLevel) =>
        /\ ret.raised = "none"
        /\ Len(ret.out) >= 1
        /\ \A k \in 1..Len(ret.out) :
              /\ Len(ret.out[k].data.levels) <= file.ResolutionLevels
              /\ LevelsOf(ret.out[k]) =
                    IF ret.resLevel.isInt THEN UpTo(ret.resLevel.r)
                    ELSE UpTo(file.ResolutionLevels - 1)

C3_Witness ==
    /\ Returned
    /\ ret.resLevel.isInt /\ ret.resLevel.r = 1
    /\ file.ResolutionLevels = 3
    /\ Len(ret.out) >= 1
    /\ LevelsOf(ret.out[1]) = <<0, 1>>

(* C4: with colorsIndependant=True on a file with C > 1 channels the       *)
(* reader returns exactly C pairs, the c-th holding only channel c of      *)
(* every retained level and named 'Channel c', none with a channel_axis.   *)
C4_SplitChannels ==
    (ret.called /\ ValidResLevel /\ ret.colorsIndependant /\ file.Channels > 1) =>
        /\ ret.raised = "none"
        /\ Len(ret.out) = file.Channels
        /\ \A c \in 1..Len(ret.out) :
              /\ ~ret.out[c].meta.name.list
              /\ ret.out[c].meta.name.str = ChannelName(c - 1)
              /\ "channel_axis" \notin ret.out[c].meta.keys
              /\ \A d \in 1..Len(ret.out[c].data.levels) :
                    ret.out[c].data.levels[d].fixed = {<<"c", c - 1>>}

(* C5: for a file with more than one channel the non-split result has an   *)
(* integer channel_axis, and in every returned level array the axis at     *)
(* that index exists and has the channel count as its extent.              *)
C5_ChannelAxisExtent ==
    (ret.called /\ ValidResLevel /\ ~ret.colorsIndependant /\ file.Channels > 1) =>
        /\ ret.raised = "none"
        /\ \A k \in 1..Len(ret.out) :
              /\ "channel_axis" \in ret.out[k].meta.keys
              /\ ret.out[k].meta.channel_axis # <<>>
              /\ \A d \in 1..Len(ret.out[k].data.levels) :
                    LET a == ret.out[k].data.levels[d]
                        ax == ret.out[k].meta.channel_axis[1]
                    IN ax >= 0 /\ ax + 1 <= Len(a.shape) /\ a.shape[ax + 1] = file.Channels

(* C6: a failure of the contrast-limit extraction never leaves ims_reader: *)
(* the limits are then [0, 65535] for uint16, [0, 255] for uint8 and       *)
(* [0, 1] otherwise; on success they are [smallest value > 0, largest      *)
(* value]; in all cases a pair with first element <= second element.       *)
C6_ContrastLimits ==
    (ret.called /\ ValidResLevel) =>
        /\ ret.raised = "none"
        /\ \A k \in 1..Len(ret.out) :
              LET cl == ret.out[k].meta.contrast_limits
                  failed == ~file.readable \/ \A v \in file.pixels : v <= 0
              IN /\ Len(cl) = 2
                 /\ cl[1] <= cl[2]
                 /\ (failed /\ file.dtype = "uint16") => cl = <<0, 65535>>
                 /\ (failed /\ file.dtype = "uint8") => cl = <<0, 255>>
                 /\ (failed /\ file.dtype \notin {"uint16", "uint8"}) => cl = <<0, 1>>
                 /\ ~failed =>
                       /\ cl[1] \in file.pixels /\ cl[1] > 0
                       /\ \A v \in file.pixels : v > 0 => cl[1] <= v
                       /\ cl[2] \in file.pixels
                       /\ \A v \in file.pixels : v <= cl[2]

C6_Witness ==
    /\ Returned
    /\ ~file.readable
    /\ file.dtype = "uint8"
    /\ Len(ret.out) >= 1
    /\ ret.out[1].meta.contrast_limits = <<0, 255>>

(* C9: the multiscale flag of every returned metadata dictionary is True   *)
(* exactly when the accompanying data item is a list of more than one      *)
(* resolution level.                                                       *)
C9_MultiscaleAgrees ==
    (ret.called /\ ValidResLevel /\ ret.raised = "none") =>
        \A k \in 1..Len(ret.out) :
            ret.out[k].meta.multiscale =
                (ret.out[k].data.isList /\ Len(ret.out[k].data.levels) > 1)

(* C10: for every integer resLevel outside 0..N-1, too high or negative,   *)
(* ims_reader raises ValueError and returns no data.                       *)
C10_OutOfRangeRaises ==
    (ret.called /\ ~ValidResLevel) =>
        (ret.raised = "ValueError" /\ ret.out = <<>>)

(***************************************************************************)
(* Properties of resolution_change, checked under Spec and SpecLoaded.     *)
(***************************************************************************)
LayerNamed(ls, name) == ls[IndexOf(ls, name)]

(* C1: after a successful update, for every returned channel name that a   *)
(* layer had before the update, the viewer holds a layer of that name      *)
(* with the old layer's opacity, gamma, colormap, blending,                *)
(* interpolation2d, interpolation3d, visible, rendering, contrast_limits.  *)
C1_DisplayKept ==
    last.outcome = "updated" =>
        \A k \in 1..Len(last.names) :
            HasLayer(last.pre, last.names[k]) =>
                /\ HasLayer(layers, last.names[k])
                /\ LET old == LayerNamed(last.pre, last.names[k])
                       new == LayerNamed(layers, last.names[k])
                   IN /\ new.opacity = old.opacity
                      /\ new.gamma = old.gamma
                      /\ new.colormap = old.colormap
                      /\ new.blending = old.blending
                      /\ new.interpolation2d = old.interpolation2d
                      /\ new.interpolation3d = old.interpolation3d
                      /\ new.visible = old.visible
                      /\ new.rendering = old.rendering
                      /\ new.contrast_limits = old.contrast_limits

C1_Witness ==
    /\ last.outcome = "updated"
    /\ last.level = 0
    /\ file.ResolutionLevels > 1
    /\ HasLayer(last.pre, ChannelName(0))
    /\ LayerNamed(last.pre, ChannelName(0)).colormap = "green"
    /\ Len(LayerNamed(last.pre, ChannelName(0)).data.levels) > 1
    /\ HasLayer(layers, ChannelName(0))
    /\ Len(LayerNamed(layers, ChannelName(0)).data.levels) = 1
    /\ LayerNamed(layers, ChannelName(0)).colormap = "green"

(* C2: a requested level outside 0..resolutionLevels-1 and a viewer        *)
(* without an Image layer carrying 'fileName' both end the call early      *)
(* with the layer list, every display property and ndisplay as they were;  *)
(* no layer is removed unless the reader call has succeeded.               *)
C2_FailuresLeaveViewer ==
    last.outcome # "none" =>
        /\ ImsLayers(last.pre) = {} <=> last.outcome = "no_ims_layer"
        /\ (/\ ImsLayers(last.pre) # {}
            /\ "resolutionLevels" \in last.pre[SetMin(ImsLayers(last.pre))].metadata.keys
            /\ \/ last.level < 0
               \/ last.level >= last.pre[SetMin(ImsLayers(last.pre))].metadata.resolutionLevels)
           => last.outcome = "invalid_level"
        /\ last.outcome \in {"no_ims_layer", "invalid_level"} =>
              (layers = last.pre /\ ndisplay = last.preNd)
        /\ last.outcome # "updated" => layers = last.pre

C2_Witness ==
    /\ last.outcome = "invalid_level"
    /\ last.level = file.ResolutionLevels
    /\ last.preNd = 3
    /\ ndisplay = 3
    /\ Len(layers) >= 1

(* The other failure: the call found no Image layer with 'fileName'. *)
C2_WitnessNoLayer ==
    /\ last.outcome = "no_ims_layer"
    /\ last.level = 0
    /\ layers = <<>>

C8_CapNotSticky ==
    /\ ImsLayers(layers) # {}
    /\ \A i \in ImsLayers(layers) :
          /\ layers[i].metadata.fileName = filePathComplete
          /\ "resolutionLevels" \in layers[i].metadata.keys
          /\ layers[i].metadata.resolutionLevels = file.ResolutionLevels
    /\ \A r \in 0..(file.ResolutionLevels - 1) :
          LET res == resolution_change(layers, ndisplay, r, file)
          IN /\ res.outcome = "updated"
             /\ \A k \in 1..Len(res.names) :
                   /\ HasLayer(res.layers, res.names[k])
                   /\ Len(LayerNamed(res.layers, res.names[k]).data.levels) = r + 1
    /\ (last.outcome # "none" /\ 0 <= last.level /\ last.level < file.ResolutionLevels)
          => last.outcome = "updated"

C8_Witness ==
    /\ last.outcome = "updated"
    /\ file.ResolutionLevels = 3
    /\ last.level = 2
    /\ HasLayer(last.pre, ChannelName(0))
    /\ Len(LayerNamed(last.pre, ChannelName(0)).data.levels) = 1
    /\ HasLayer(layers, ChannelName(0))
    /\ Len(LayerNamed(layers, ChannelName(0)).data.levels) = 3

====
